---- MODULE Spec2Model ----
(***************************************************************************)
(* may_thread: running blocking closures on OS threads from coroutines.    *)
(*                                                                         *)
(*   src/src/lib.rs   join(f): spawn a thread that runs f, park the        *)
(*                    caller on a Blocker, hand the outcome back through   *)
(*                    the ret / err AtomicOption slots.                    *)
(*   src/src/pool.rs  ThreadPool<S>: workers sharing one mpmc queue, each  *)
(*                    with a private state; ThreadPool::join sends a boxed *)
(*                    job, sleeps one second and unwraps a stack slot.     *)
(***************************************************************************)
EXTENDS Integers, Sequences, FiniteSets, TLC

\* ------------------------------------------------------------- bounds
NumCallers == 1
MaxVal == 3
NumFairPoolCallers == 1
NumPoolCallers == 2
MaxWorkers == 2

Callers == 1..NumCallers
Vals == 1..MaxVal
PoolCallers == 1..NumPoolCallers
Workers == 1..MaxWorkers
\* Stack addresses at which a `ret` slot of ThreadPool::join can live; a
\* frame that a call has left can be taken by a later call.
Frames == 1..NumPoolCallers

\* ------------------------------------------------------------ options
\* Option<T> / AtomicOption<T>: None or Some(v).
None == [tag |-> "None", val |-> 0]
Some(v) == [tag |-> "Some", val |-> v]

\* The closures handed to join.  A closure writes val into data it borrows
\* from the caller's frame (tests::simple_test: `|| i = 10`) and then either
\* returns val or panics with payload val.
Fns == [kind : {"ret", "panic"}, val : Vals]
NoFn == [kind |-> "none", val |-> 0]

\* What a call of join came to: nothing yet, a returned value, a panic
\* unwinding out of join with a payload, the cancel panic, or the fatal
\* "failed to get result" panic.
NoOut == [kind |-> "none", val |-> 0]
Returned(v) == [kind |-> "value", val |-> v]
Unwound(p) == [kind |-> "panic", val |-> p]
CancelPanic == [kind |-> "cancel", val |-> 0]
FatalPanic == [kind |-> "fatal", val |-> 0]

VARIABLES
  \* ---- lib.rs: one join call per caller
  pc,        \* caller position: idle, spawned, parked, left
  f,         \* the closure given to join
  ret,       \* AtomicOption for the value
  err,       \* AtomicOption for the panic payload
  blocker,   \* the Blocker's wake-up token: TRUE once unpark was called
  cancel,    \* a cancellation was delivered to the caller's coroutine
  tpc,       \* spawned thread position: none, run, exit, stored, finished, dead
  exit,      \* the spawned thread's local `exit` (result of catch_unwind)
  local,     \* caller-frame data borrowed by f (`i` in simple_test)
  out,       \* how join ended for the caller
  \* ---- pool.rs: one ThreadPool, one ThreadPool::join call per pool caller
  built,     \* ThreadPool::new has returned
  size,      \* the pool size given to new
  queue,     \* the mpmc queue of boxed jobs
  closed,    \* the pool's Sender was dropped (replaced by a dummy in drop)
  wpc,       \* worker position: none, recv, run, exited
  wjob,      \* the job a worker dequeued and is executing
  state,     \* each worker's `state`
  made,      \* the thread that called the initializer for each worker's state
  wlog,      \* per worker, the jobs it executed: <<id, state before, after>>
  ppc,       \* pool caller position: idle, sleep, left
  pf,        \* the closure given to ThreadPool::join
  frame,     \* the stack address of the caller's `ret` (0: not in join)
  mem,       \* the stack memory holding the `ret` slots, by address
  top,       \* the highest stack address a `ret` has been placed at so far
  pout,      \* how ThreadPool::join ended for the caller
  dpc,       \* drop position: live, joining, dropped
  di         \* index of the thread drop is joining

bridgeVars == <<pc, f, ret, err, blocker, cancel, tpc, exit, local, out>>

poolVars == <<built, size, queue, closed, wpc, wjob, state, made, wlog, ppc,
              pf, frame, mem, top, pout, dpc, di>>

vars == <<pc, f, ret, err, blocker, cancel, tpc, exit, local, out,
          built, size, queue, closed, wpc, wjob, state, made, wlog, ppc,
          pf, frame, mem, top, pout, dpc, di>>

\* ---------------------------------------------------------------- Init
BridgeInit ==
  /\ pc = [c \in Callers |-> "idle"]
  /\ f = [c \in Callers |-> NoFn]
  /\ ret = [c \in Callers |-> None]
  /\ err = [c \in Callers |-> None]
  /\ blocker = [c \in Callers |-> FALSE]
  /\ cancel = [c \in Callers |-> FALSE]
  /\ tpc = [c \in Callers |-> "none"]
  /\ exit = [c \in Callers |-> NoOut]
  /\ local = [c \in Callers |-> 0]
  /\ out = [c \in Callers |-> NoOut]

\* The increment of the job of tests::thread_pool, `*s += 1`.
Inc == 1

\* The jobs given to ThreadPool::join: the job of tests::thread_pool,
\* `|s| { *s += 1; *s }`, and a job that increments alike and then panics
\* with payload val.
PoolFns == [kind : {"ret", "panic"}, val : {Inc}]
NoJob == [id |-> 0, fn |-> NoFn, addr |-> 0]

\* A `ret` slot in stack memory.  free: no live call owns the address;
\* zeroed: mem::zeroed() and nothing written since; Ok / Err: the Result a
\* job wrote, `from` naming the call whose job wrote it.
FreeSlot == [tag |-> "free", val |-> 0, from |-> 0]
ZeroedSlot == [tag |-> "zeroed", val |-> 0, from |-> 0]

\* How a ThreadPool::join call ended; `from` is the call whose job produced
\* the outcome that was read (0: no job did).
NoPOut == [kind |-> "none", val |-> 0, from |-> 0]

\* The state initializer of tests::thread_pool, `|| 0`.
factory == 0

PoolInit ==
  /\ built = FALSE
  /\ size = 0
  /\ queue = <<>>
  /\ closed = FALSE
  /\ wpc = [w \in Workers |-> "none"]
  /\ wjob = [w \in Workers |-> NoJob]
  /\ state = [w \in Workers |-> 0]
  /\ made = [w \in Workers |-> "none"]
  /\ wlog = [w \in Workers |-> <<>>]
  /\ ppc = [c \in PoolCallers |-> "idle"]
  /\ pf = [c \in PoolCallers |-> NoFn]
  /\ frame = [c \in PoolCallers |-> 0]
  /\ mem = [a \in Frames |-> FreeSlot]
  /\ top = 0
  /\ pout = [c \in PoolCallers |-> NoPOut]
  /\ dpc = "live"
  /\ di = 0

Init == BridgeInit /\ PoolInit

\* ------------------------------------------------------- lib.rs: join
\* panic::catch_unwind(AssertUnwindSafe(f)): Ok(r) or Err(e).
catch_unwind(fn) ==
  IF fn.kind = "ret" THEN Returned(fn.val) ELSE Unwound(fn.val)

\* join, lines 78-98: take the current blocker, allocate empty ret and err,
\* spawn the thread; the caller has not called park yet.
join_spawn(c, fn) ==
  /\ pc[c] = "idle"
  /\ pc' = [pc EXCEPT ![c] = "spawned"]
  /\ f' = [f EXCEPT ![c] = fn]
  /\ ret' = [ret EXCEPT ![c] = None]
  /\ err' = [err EXCEPT ![c] = None]
  /\ tpc' = [tpc EXCEPT ![c] = "run"]
  /\ UNCHANGED <<blocker, cancel, exit, local, out>>
  /\ UNCHANGED poolVars

\* thread_run without the catch_unwind boundary: a panic of f unwinds the
\* spawned thread, which dies before it stores anything or unparks.
thread_run_no_catch(c) ==
  /\ tpc[c] = "run"
  /\ local' = [local EXCEPT ![c] = f[c].val]
  /\ IF f[c].kind = "ret"
       THEN /\ exit' = [exit EXCEPT ![c] = Returned(f[c].val)]
            /\ tpc' = [tpc EXCEPT ![c] = "exit"]
       ELSE /\ exit' = exit
            /\ tpc' = [tpc EXCEPT ![c] = "dead"]
  /\ UNCHANGED <<pc, f, ret, err, blocker, cancel, out>>
  /\ UNCHANGED poolVars

\* The spawned closure, line 87: f runs to its end inside catch_unwind.  Its
\* write to the borrowed data lands in the caller's frame.
thread_run(c) ==
  /\ tpc[c] = "run"
  /\ exit' = [exit EXCEPT ![c] = catch_unwind(f[c])]
  /\ local' = [local EXCEPT ![c] = f[c].val]
  /\ tpc' = [tpc EXCEPT ![c] = "exit"]
  /\ UNCHANGED <<pc, f, ret, err, blocker, cancel, out>>
  /\ UNCHANGED poolVars

\* thread_store with an empty Ok arm: a value is dropped, nothing is stored.
thread_store_skip_ok(c) ==
  /\ tpc[c] = "exit"
  /\ IF exit[c].kind = "value"
       THEN ret' = ret /\ err' = err
       ELSE err' = [err EXCEPT ![c] = Some(exit[c].val)] /\ ret' = ret
  /\ tpc' = [tpc EXCEPT ![c] = "stored"]
  /\ UNCHANGED <<pc, f, blocker, cancel, exit, local, out>>
  /\ UNCHANGED poolVars

\* thread_store with the two arms storing into the same slot: a value is
\* swapped into err as well.
thread_store_into_err(c) ==
  /\ tpc[c] = "exit"
  /\ err' = [err EXCEPT ![c] = Some(exit[c].val)]
  /\ ret' = ret
  /\ tpc' = [tpc EXCEPT ![c] = "stored"]
  /\ UNCHANGED <<pc, f, blocker, cancel, exit, local, out>>
  /\ UNCHANGED poolVars

\* Lines 88-95: the outcome goes into ret or into err.
thread_store(c) ==
  /\ tpc[c] = "exit"
  /\ IF exit[c].kind = "value"
       THEN ret' = [ret EXCEPT ![c] = Some(exit[c].val)] /\ err' = err
       ELSE err' = [err EXCEPT ![c] = Some(exit[c].val)] /\ ret' = ret
  /\ tpc' = [tpc EXCEPT ![c] = "stored"]
  /\ UNCHANGED <<pc, f, blocker, cancel, exit, local, out>>
  /\ UNCHANGED poolVars

\* Line 96: blocker.unpark().
thread_unpark(c) ==
  /\ tpc[c] = "stored"
  /\ blocker' = [blocker EXCEPT ![c] = TRUE]
  /\ tpc' = [tpc EXCEPT ![c] = "finished"]
  /\ UNCHANGED <<pc, f, ret, err, cancel, exit, local, out>>
  /\ UNCHANGED poolVars

\* Line 101: the caller enters blocker.park(None) and is suspended.  A token
\* set by an earlier unpark stays set.
park(c) ==
  /\ pc[c] = "spawned"
  /\ pc' = [pc EXCEPT ![c] = "parked"]
  /\ UNCHANGED <<f, ret, err, blocker, cancel, tpc, exit, local, out>>
  /\ UNCHANGED poolVars

\* The scheduler delivers a cancellation to the caller's coroutine while it
\* is inside join.
deliver_cancel(c) ==
  /\ pc[c] \in {"spawned", "parked"}
  /\ ~cancel[c]
  /\ cancel' = [cancel EXCEPT ![c] = TRUE]
  /\ UNCHANGED <<pc, f, ret, err, blocker, tpc, exit, local, out>>
  /\ UNCHANGED poolVars

\* join_match falling back to a zero value where the code panics: an empty
\* ret after a wake, or a cancelled park, yields a value.
join_match_default(parkres, r, e) ==
  IF r.tag = "Some" THEN Returned(r.val)
  ELSE IF parkres = "Ok" /\ e.tag = "Some" THEN Unwound(e.val)
  ELSE Returned(0)

\* join_match raising a panic of its own for a stored failure instead of
\* resuming the stored payload (what Result::unwrap would do).
join_match_unwrap(parkres, r, e) ==
  IF parkres = "Ok"
    THEN IF r.tag = "Some" THEN Returned(r.val)
         ELSE IF e.tag = "Some" THEN Unwound(0)
         ELSE FatalPanic
    ELSE CancelPanic

\* Lines 101-114: the match on park's result.  parkres is "Ok" or "Err";
\* r and e are what ret.take and err.take find.
join_match(parkres, r, e) ==
  IF parkres = "Ok"
    THEN IF r.tag = "Some" THEN Returned(r.val)
         ELSE IF e.tag = "Some" THEN Unwound(e.val)
         ELSE FatalPanic
    ELSE CancelPanic

\* park returns Ok(()): the token is consumed and the slots are taken.
park_ok(c) ==
  /\ pc[c] = "parked"
  /\ blocker[c]
  /\ blocker' = [blocker EXCEPT ![c] = FALSE]
  /\ out' = [out EXCEPT ![c] = join_match("Ok", ret[c], err[c])]
  /\ ret' = [ret EXCEPT ![c] = None]
  /\ err' = [err EXCEPT ![c] = IF ret[c].tag = "Some" THEN err[c] ELSE None]
  /\ pc' = [pc EXCEPT ![c] = "left"]
  /\ UNCHANGED <<f, cancel, tpc, exit, local>>
  /\ UNCHANGED poolVars

\* park_err with the slots taken before the match on park's result: a
\* cancelled caller empties ret and err on its way out.
park_err_take(c) ==
  /\ pc[c] = "parked"
  /\ cancel[c]
  /\ out' = [out EXCEPT ![c] = CancelPanic]
  /\ ret' = [ret EXCEPT ![c] = None]
  /\ err' = [err EXCEPT ![c] = None]
  /\ pc' = [pc EXCEPT ![c] = "left"]
  /\ UNCHANGED <<f, blocker, cancel, tpc, exit, local>>
  /\ UNCHANGED poolVars

\* park returns Err(_): cancellation; neither slot is read.
park_err(c) ==
  /\ pc[c] = "parked"
  /\ cancel[c]
  /\ out' = [out EXCEPT ![c] = join_match("Err", ret[c], err[c])]
  /\ pc' = [pc EXCEPT ![c] = "left"]
  /\ UNCHANGED <<f, ret, err, blocker, cancel, tpc, exit, local>>
  /\ UNCHANGED poolVars

BridgeNext ==
  \/ \E c \in Callers, fn \in Fns : join_spawn(c, fn)
  \/ \E c \in Callers : thread_run(c)
  \/ \E c \in Callers : thread_store(c)
  \/ \E c \in Callers : thread_unpark(c)
  \/ \E c \in Callers : park(c)
  \/ \E c \in Callers : deliver_cancel(c)
  \/ \E c \in Callers : park_ok(c)
  \/ \E c \in Callers : park_err(c)

Spec == Init /\ [][BridgeNext]_vars

\* The scheduling the bridge relies on: the OS runs the spawned thread, and
\* the coroutine scheduler resumes a caller whose park can return.
FairSpec ==
  /\ Spec
  /\ \A c \in Callers :
       /\ WF_vars(thread_run(c))
       /\ WF_vars(thread_store(c))
       /\ WF_vars(thread_unpark(c))
       /\ WF_vars(park(c))
       /\ WF_vars(park_ok(c))
       /\ WF_vars(park_err(c))

\* ======================================================= claims: join
InJoin(c) == pc[c] \in {"spawned", "parked"}
Left(c) == pc[c] = "left"

\* C1: join never returns early: whenever a call of join has returned
\* normally (with a value), its spawned thread has finished running f and
\* has stored the outcome.
C1_JoinReturnsAfterThread ==
  \A c \in Callers :
    (Left(c) /\ out[c].kind = "value")
      => /\ tpc[c] \in {"stored", "finished"}
         /\ exit[c] = catch_unwind(f[c])

\* A call has returned a value although a cancellation had been delivered
\* to it as well.
C1_Witness ==
  \E c \in Callers : Left(c) /\ out[c].kind = "value" /\ cancel[c]

\* C3: transparency: when f returns v without failing and no cancellation
\* was delivered, a call that has left join returned exactly v, and f's write
\* to the data borrowed from the caller is there.
C3_Transparency ==
  \A c \in Callers :
    (Left(c) /\ f[c].kind = "ret" /\ ~cancel[c])
      => /\ out[c] = Returned(f[c].val)
         /\ local[c] = f[c].val

\* An uncancelled call whose closure returns the largest value has left.
C3_Witness ==
  \E c \in Callers :
    Left(c) /\ f[c] = [kind |-> "ret", val |-> MaxVal] /\ ~cancel[c]

\* C4 as stated: whenever f has failed with payload e, the call of join has
\* unwound with exactly e.
C4_FailureTransparency_Original ==
  \A c \in Callers :
    (Left(c) /\ exit[c].kind = "panic") => out[c] = Unwound(exit[c].val)

\* C4 amended: when f fails with payload e, a call that has left join never
\* returned a value; with no cancellation delivered it unwound with exactly
\* e, and a cancelled call unwound with e or with the cancel panic.
C4_FailureTransparency ==
  \A c \in Callers :
    (Left(c) /\ f[c].kind = "panic")
      => /\ out[c].kind # "value"
         /\ ~cancel[c] => out[c] = Unwound(f[c].val)
         /\ out[c] \in {Unwound(f[c].val), CancelPanic}

\* An uncancelled call whose closure panicked with the largest payload has
\* left join, its thread finished.
C4_Witness ==
  \E c \in Callers :
    /\ Left(c) /\ f[c] = [kind |-> "panic", val |-> MaxVal] /\ ~cancel[c]
    /\ tpc[c] = "finished"

\* C10: join does not hang: under fair scheduling the spawned thread always
\* gets to store an outcome and to unpark, and a caller inside join always
\* leaves it; a call that was not cancelled leaves with f's value or f's
\* failure, never with the fatal panic.
C10_JoinDoesNotHang ==
  /\ \A c \in Callers : (tpc[c] = "run") ~> (tpc[c] = "finished")
  /\ \A c \in Callers : InJoin(c) ~> Left(c)
  /\ [](\A c \in Callers :
          (Left(c) /\ ~cancel[c]) => out[c].kind \in {"value", "panic"})

\* unpark was called before the caller reached park, for a closure that
\* panicked.
C10_Witness ==
  \E c \in Callers :
    /\ pc[c] = "spawned" /\ blocker[c] /\ f[c].kind = "panic"

\* The call of c left join through the Err arm: by the cancel panic.
Cancelled(c) == Left(c) /\ out[c] = CancelPanic
\* What the spawned thread of c has stored so far, as <<ret, err>>.
StoredSlots(c) ==
  IF tpc[c] \in {"stored", "finished"}
    THEN IF exit[c].kind = "value" THEN <<Some(exit[c].val), None>>
         ELSE <<None, Some(exit[c].val)>>
    ELSE <<None, None>>

\* C11: cancellation of join: a call whose park reported an error has not
\* returned normally and has read neither slot: ret and err hold exactly
\* what the spawned thread has stored so far, and keep holding it; the
\* thread is not stopped: under fair scheduling it runs f to its end, stores
\* the outcome and finishes.
C11_Cancellation ==
  /\ [](\A c \in Callers :
          Cancelled(c)
            => /\ out[c].kind # "value"
               /\ tpc[c] # "dead"
               /\ <<ret[c], err[c]>> = StoredSlots(c))
  /\ \A c \in Callers :
       Cancelled(c)
         ~> (tpc[c] = "finished" /\ exit[c] = catch_unwind(f[c])
               /\ <<ret[c], err[c]>> = StoredSlots(c))

\* A call was cancelled out of join while its thread had not run f yet.
C11_Witness ==
  \E c \in Callers : Cancelled(c) /\ tpc[c] = "run"

\* C14: borrow safety of the unsafe spawn: once the caller has left join,
\* also by a cancellation, its spawned thread is neither still to run f (f
\* borrows from the caller's frame) nor still to write the outcome.
C14_BorrowSafety ==
  \A c \in Callers : Left(c) => tpc[c] \notin {"run", "exit"}

Filled(c) == {s \in {"ret", "err"} : (IF s = "ret" THEN ret[c] ELSE err[c]).tag = "Some"}

\* C15: outcome-slot invariant: the thread stores exactly one slot, ret for
\* a value and err for a failure, never both, only after f and before its one
\* unpark; a caller whose park returned Ok finds exactly one slot filled,
\* never takes the fatal branch, and takes the filled slot exactly once.
C15_OutcomeSlots ==
  /\ [](\A c \in Callers :
          /\ Cardinality(Filled(c)) <= 1
          /\ tpc[c] \in {"none", "run", "exit", "dead"} => Filled(c) = {}
          /\ (InJoin(c) \/ Cancelled(c)) => <<ret[c], err[c]>> = StoredSlots(c)
          /\ (InJoin(c) /\ tpc[c] \in {"stored", "finished"})
               => Cardinality(Filled(c)) = 1
          /\ blocker[c] => tpc[c] = "finished"
          /\ out[c] # FatalPanic
          /\ (Left(c) /\ ~Cancelled(c))
               => (Filled(c) = {} /\ out[c] = exit[c] /\ tpc[c] = "finished"))
  /\ [][\A c \in Callers :
          /\ (~blocker[c] /\ blocker'[c])
               => (tpc[c] = "stored" /\ Cardinality(Filled(c)) = 1)
          /\ Filled(c)' # Filled(c)
               => \/ Filled(c) = {} /\ tpc[c] = "exit" /\ tpc'[c] = "stored"
                  \/ Filled(c)' = {} /\ pc[c] = "parked" /\ blocker[c]
                       /\ Left(c)']_vars

\* A caller whose closure panicked was woken by unpark and has taken err.
C15_Witness ==
  \E c \in Callers :
    Left(c) /\ out[c].kind = "panic" /\ Filled(c) = {} /\ tpc[c] = "finished"

\* ------------------------------------------------ pool.rs: ThreadPool
\* ThreadPool::new(f, size), lines 37-60: for each worker the initializer is
\* called (line 45, in the loop of new, before thread::spawn: on the thread
\* that constructs the pool), the state is moved into the closure of a new
\* thread, and that thread iterates over the receiver.
new(n) ==
  /\ ~built
  /\ built' = TRUE
  /\ size' = n
  /\ wpc' = [w \in Workers |-> IF w <= n THEN "recv" ELSE "none"]
  /\ state' = [w \in Workers |-> IF w <= n THEN factory ELSE 0]
  /\ made' = [w \in Workers |-> IF w <= n THEN "constructor" ELSE "none"]
  /\ UNCHANGED <<queue, closed, wjob, wlog, ppc, pf, frame, mem, pout, dpc, di,
                 top>>
  /\ UNCHANGED bridgeVars

\* A receiver of the queue still exists: some worker thread holds its rx.
HasReceiver == \E w \in Workers : wpc[w] \in {"recv", "run"}

\* pool_send with the result of send ignored instead of expect: with no
\* receiver left the job is dropped and the caller goes on to sleep.
pool_send_swallow(c, fn, a) ==
  /\ built /\ dpc = "live"
  /\ ppc[c] = "idle"
  /\ mem[a].tag = "free"
  /\ a <= top + 1
  /\ pf' = [pf EXCEPT ![c] = fn]
  /\ queue' = IF HasReceiver
                THEN Append(queue, [id |-> c, fn |-> fn, addr |-> a])
                ELSE queue
  /\ ppc' = [ppc EXCEPT ![c] = "sleep"]
  /\ frame' = [frame EXCEPT ![c] = a]
  /\ mem' = [mem EXCEPT ![a] = ZeroedSlot]
  /\ top' = IF a > top THEN a ELSE top
  /\ pout' = pout
  /\ UNCHANGED <<built, size, closed, wpc, wjob, state, wlog, dpc, di, made>>
  /\ UNCHANGED bridgeVars

\* ThreadPool::join, lines 72-81: `ret` is zeroed at stack address a, the job
\* borrowing it is boxed and sent; with no receiver left the send fails and
\* expect panics.  The address is one that no live call owns: one a call
\* that has left owned before, or the next one never used (addresses never
\* used are interchangeable).
pool_send(c, fn, a) ==
  /\ built /\ dpc = "live"
  /\ ppc[c] = "idle"
  /\ mem[a].tag = "free"
  /\ a <= top + 1
  /\ pf' = [pf EXCEPT ![c] = fn]
  /\ IF HasReceiver
       THEN /\ queue' = Append(queue, [id |-> c, fn |-> fn, addr |-> a])
            /\ ppc' = [ppc EXCEPT ![c] = "sleep"]
            /\ frame' = [frame EXCEPT ![c] = a]
            /\ mem' = [mem EXCEPT ![a] = ZeroedSlot]
            /\ top' = IF a > top THEN a ELSE top
            /\ pout' = pout
       ELSE /\ ppc' = [ppc EXCEPT ![c] = "left"]
            /\ pout' = [pout EXCEPT ![c] = [kind |-> "fatal", val |-> 0, from |-> 0]]
            /\ UNCHANGED <<queue, frame, mem, top>>
  /\ UNCHANGED <<built, size, closed, wpc, wjob, state, wlog, dpc, di, made>>
  /\ UNCHANGED bridgeVars

\* Result::unwrap on an Err panics with its own message, not with the
\* payload the Err holds.
UnwrapPanic == [kind |-> "unwrap_panic", val |-> 0]

\* Reading a `ret` that is still the zeroed bit pattern is undefined: the
\* read can come out as Ok of the zero value or as an Err.
ZeroedRead ==
  {[kind |-> "value", val |-> 0, from |-> 0],
   [kind |-> UnwrapPanic.kind, val |-> 0, from |-> 0]}

\* ret.unwrap(), line 84, on what the slot holds.
unwrap(slot) ==
  IF slot.tag = "Ok" THEN {[kind |-> "value", val |-> slot.val, from |-> slot.from]}
  ELSE IF slot.tag = "Err"
    THEN {[kind |-> UnwrapPanic.kind, val |-> UnwrapPanic.val, from |-> slot.from]}
  ELSE ZeroedRead

\* Lines 81-84: coroutine::sleep(1s) returns, whatever the workers have done
\* by then; the caller unwraps its `ret` and leaves ThreadPool::join, and its
\* frame is popped.
sleep_unwrap(c) ==
  /\ ppc[c] = "sleep"
  /\ \E o \in unwrap(mem[frame[c]]) : pout' = [pout EXCEPT ![c] = o]
  /\ ppc' = [ppc EXCEPT ![c] = "left"]
  /\ mem' = [mem EXCEPT ![frame[c]] = FreeSlot]
  /\ frame' = [frame EXCEPT ![c] = 0]
  /\ UNCHANGED <<built, size, queue, closed, wpc, wjob, state, wlog, pf, dpc, di, top, made>>
  /\ UNCHANGED bridgeVars

\* worker_recv by a worker that does not wait for its current job to end: it
\* takes the next job while one is still running.
worker_recv_eager(w) ==
  /\ wpc[w] \in {"recv", "run"}
  /\ queue # <<>>
  /\ wjob' = [wjob EXCEPT ![w] = Head(queue)]
  /\ queue' = Tail(queue)
  /\ wpc' = [wpc EXCEPT ![w] = "run"]
  /\ UNCHANGED <<built, size, closed, state, wlog, ppc, pf, frame, mem, pout,
                 dpc, di, top, made>>
  /\ UNCHANGED bridgeVars

\* Worker loop, line 48: the receiver's iterator yields the next job.
worker_recv(w) ==
  /\ wpc[w] = "recv"
  /\ queue # <<>>
  /\ wjob' = [wjob EXCEPT ![w] = Head(queue)]
  /\ queue' = Tail(queue)
  /\ wpc' = [wpc EXCEPT ![w] = "run"]
  /\ UNCHANGED <<built, size, closed, state, wlog, ppc, pf, frame, mem, pout,
                 dpc, di, top, made>>
  /\ UNCHANGED bridgeVars

\* The job body applied to a state s: the new state and the Result that
\* catch_unwind(|| f(s)) yields.
apply_job(fn, s) ==
  [state |-> s + fn.val,
   tag |-> IF fn.kind = "ret" THEN "Ok" ELSE "Err",
   val |-> IF fn.kind = "ret" THEN s + fn.val ELSE fn.val]

\* worker_run against one state shared by all workers (an initializer run
\* once, its value shared) instead of a state per worker.
worker_run_shared(w) ==
  /\ wpc[w] = "run"
  /\ LET j == wjob[w]
         r == apply_job(j.fn, state[w])
     IN /\ state' = [v \in Workers |-> IF v <= size THEN r.state ELSE state[v]]
        /\ wlog' = [wlog EXCEPT ![w] = Append(@, <<j.id, state[w], r.state>>)]
        /\ mem' = IF mem[j.addr].tag = "free" THEN mem
                  ELSE [mem EXCEPT ![j.addr] =
                          [tag |-> r.tag, val |-> r.val, from |-> j.id]]
  /\ wjob' = [wjob EXCEPT ![w] = NoJob]
  /\ wpc' = [wpc EXCEPT ![w] = "recv"]
  /\ UNCHANGED <<built, size, queue, closed, ppc, pf, frame, pout, dpc, di, top, made>>
  /\ UNCHANGED bridgeVars

\* worker_run of a job closure without catch_unwind: a panic of the job
\* unwinds the worker thread, which ends without writing a Result.
worker_run_no_catch(w) ==
  /\ wpc[w] = "run"
  /\ LET j == wjob[w]
         r == apply_job(j.fn, state[w])
     IN /\ state' = [state EXCEPT ![w] = r.state]
        /\ wlog' = [wlog EXCEPT ![w] = Append(@, <<j.id, state[w], r.state>>)]
        /\ mem' = IF mem[j.addr].tag = "free" \/ r.tag = "Err" THEN mem
                  ELSE [mem EXCEPT ![j.addr] =
                          [tag |-> r.tag, val |-> r.val, from |-> j.id]]
        /\ wpc' = [wpc EXCEPT ![w] = IF r.tag = "Err" THEN "exited" ELSE "recv"]
  /\ wjob' = [wjob EXCEPT ![w] = NoJob]
  /\ UNCHANGED <<built, size, queue, closed, ppc, pf, frame, pout, dpc, di, top, made>>
  /\ UNCHANGED bridgeVars

\* Line 50 with lines 74-76: work.call_box(&mut state) runs the job against
\* this worker's state and assigns the Result through the job's reference to
\* `ret`.  The reference is to a stack address: the write lands in whatever
\* call owns that address now, and in dead memory when none does.
worker_run(w) ==
  /\ wpc[w] = "run"
  /\ LET j == wjob[w]
         r == apply_job(j.fn, state[w])
     IN /\ state' = [state EXCEPT ![w] = r.state]
        /\ wlog' = [wlog EXCEPT ![w] = Append(@, <<j.id, state[w], r.state>>)]
        /\ mem' = IF mem[j.addr].tag = "free" THEN mem
                  ELSE [mem EXCEPT ![j.addr] =
                          [tag |-> r.tag, val |-> r.val, from |-> j.id]]
  /\ wjob' = [wjob EXCEPT ![w] = NoJob]
  /\ wpc' = [wpc EXCEPT ![w] = "recv"]
  /\ UNCHANGED <<built, size, queue, closed, ppc, pf, frame, pout, dpc, di, top, made>>
  /\ UNCHANGED bridgeVars

\* worker_exit by a loop that stops as soon as the queue is closed, whatever
\* is still queued.
worker_exit_on_close(w) ==
  /\ wpc[w] = "recv"
  /\ closed
  /\ wpc' = [wpc EXCEPT ![w] = "exited"]
  /\ UNCHANGED <<built, size, queue, closed, wjob, state, wlog, ppc, pf,
                 frame, mem, pout, dpc, di, top, made>>
  /\ UNCHANGED bridgeVars

\* Line 48: the iterator ends once every sender is gone and the queue is
\* drained; the worker thread returns.
worker_exit(w) ==
  /\ wpc[w] = "recv"
  /\ closed
  /\ queue = <<>>
  /\ wpc' = [wpc EXCEPT ![w] = "exited"]
  /\ UNCHANGED <<built, size, queue, closed, wjob, state, wlog, ppc, pf,
                 frame, mem, pout, dpc, di, top, made>>
  /\ UNCHANGED bridgeVars

\* drop_begin that keeps the pool's sender instead of replacing it: the
\* queue stays open while drop goes on to join the threads.
drop_begin_keep_tx ==
  /\ built /\ dpc = "live"
  /\ \A c \in PoolCallers : ppc[c] \in {"idle", "left"}
  /\ closed' = closed
  /\ dpc' = IF size = 0 THEN "dropped" ELSE "joining"
  /\ di' = 1
  /\ UNCHANGED <<built, size, queue, wpc, wjob, state, wlog, ppc, pf, frame,
                 mem, pout, top, made>>
  /\ UNCHANGED bridgeVars

\* Drop, lines 91-93: the pool is dropped once nothing borrows it (no call
\* of ThreadPool::join is in progress); the sender is replaced by a dummy,
\* which drops the only sender of the work queue.
drop_begin ==
  /\ built /\ dpc = "live"
  /\ \A c \in PoolCallers : ppc[c] \in {"idle", "left"}
  /\ closed' = TRUE
  /\ dpc' = IF size = 0 THEN "dropped" ELSE "joining"
  /\ di' = 1
  /\ UNCHANGED <<built, size, queue, wpc, wjob, state, wlog, ppc, pf, frame,
                 mem, pout, top, made>>
  /\ UNCHANGED bridgeVars

\* drop_join that takes the handle and drops it without joining: the thread
\* is detached, drop goes on at once.
drop_join_detach ==
  /\ dpc = "joining"
  /\ di' = di + 1
  /\ dpc' = IF di = size THEN "dropped" ELSE "joining"
  /\ UNCHANGED <<built, size, queue, closed, wpc, wjob, state, wlog, ppc, pf,
                 frame, mem, pout, top, made>>
  /\ UNCHANGED bridgeVars

\* Drop, lines 96-98: t.join() on the next thread handle returns once that
\* thread has exited; after the last one drop returns.
drop_join ==
  /\ dpc = "joining"
  /\ wpc[di] = "exited"
  /\ di' = di + 1
  /\ dpc' = IF di = size THEN "dropped" ELSE "joining"
  /\ UNCHANGED <<built, size, queue, closed, wpc, wjob, state, wlog, ppc, pf,
                 frame, mem, pout, top, made>>
  /\ UNCHANGED bridgeVars

PoolNext ==
  \/ \E n \in 0..MaxWorkers : new(n)
  \/ \E c \in PoolCallers, fn \in PoolFns, a \in Frames : pool_send(c, fn, a)
  \/ \E c \in PoolCallers : sleep_unwrap(c)
  \/ \E w \in Workers : worker_recv(w)
  \/ \E w \in Workers : worker_run(w)
  \/ \E w \in Workers : worker_exit(w)
  \/ drop_begin
  \/ drop_join

PoolSpec == Init /\ [][PoolNext]_vars

\* The pool under fair scheduling, for what must eventually happen: every
\* worker thread and the thread running drop keep being scheduled, and a job
\* that has started ends (worker_run).  Callers are not obliged to call.
FairPoolCallers == 1..NumFairPoolCallers

PoolFairNext ==
  \/ \E n \in 0..MaxWorkers : new(n)
  \/ \E c \in FairPoolCallers, fn \in PoolFns, a \in Frames : pool_send(c, fn, a)
  \/ \E c \in FairPoolCallers : sleep_unwrap(c)
  \/ \E w \in Workers : worker_recv(w)
  \/ \E w \in Workers : worker_run(w)
  \/ \E w \in Workers : worker_exit(w)
  \/ drop_begin
  \/ drop_join

PoolFairSpec ==
  /\ Init /\ [][PoolFairNext]_vars
  /\ \A w \in Workers :
       /\ WF_vars(worker_recv(w))
       /\ WF_vars(worker_run(w))
       /\ WF_vars(worker_exit(w))
  /\ WF_vars(drop_join)

\* ================================================= claims: ThreadPool
\* The log entries of the job of call c: <<worker, index>>.
RunsOf(c) ==
  UNION {{<<w, i>> : i \in {k \in 1..Len(wlog[w]) : wlog[w][k][1] = c}} :
           w \in Workers}
Executed(c) == RunsOf(c) # {}
\* The call went through the queue (its send did not fail) and has left.
PoolLeft(c) == ppc[c] = "left" /\ pout[c].kind # "fatal"

\* C2: ThreadPool::join returns to its caller only after a worker has
\* dequeued its job and finished running it.
C2_PoolJoinWaitsForJob ==
  \A c \in PoolCallers : PoolLeft(c) => Executed(c)

\* C5: pool transparency: the value ThreadPool::join returns is the value the
\* job produced on the worker that ran it, against that worker's state.
C5_PoolTransparency ==
  \A c \in PoolCallers :
    (PoolLeft(c) /\ pf[c].kind = "ret")
      => /\ pout[c].kind = "value"
         /\ \E wi \in RunsOf(c) : pout[c].val = wlog[wi[1]][wi[2]][3]

\* C6: pool failure propagation: when the job has failed with payload e on
\* the worker and the caller reads that outcome, the caller unwinds with the
\* same payload e.
C6_PoolFailurePropagation ==
  \A c \in PoolCallers :
    (PoolLeft(c) /\ pf[c].kind = "panic" /\ pout[c].from = c)
      => (pout[c].kind = "panic" /\ pout[c].val = pf[c].val)

\* C7: single delivery: every job is executed at most once, each call that
\* went through the queue receives the outcome of its own job, and no job's
\* outcome is received by two calls.
C7_SingleDelivery ==
  /\ \A c \in PoolCallers : Cardinality(RunsOf(c)) <= 1
  /\ \A c \in PoolCallers : PoolLeft(c) => pout[c].from = c
  /\ \A c, d \in PoolCallers :
       (c # d /\ PoolLeft(c) /\ PoolLeft(d) /\ pout[c].from # 0)
         => pout[c].from # pout[d].from

\* C8: shutdown completeness: once drop has returned, every worker thread of
\* the pool has exited, and none holds a job.
C8_DropWaitsForWorkers ==
  dpc = "dropped"
    => \A w \in 1..size : wpc[w] = "exited" /\ wjob[w] = NoJob

\* drop has returned on a pool of two workers that each ran a job, one of
\* them a job whose caller had left ThreadPool::join before it was run.
C8_Witness ==
  /\ dpc = "dropped"
  /\ size >= 2
  /\ \E v, w \in 1..size : v # w /\ wlog[v] # <<>> /\ wlog[w] # <<>>
  /\ \E c \in PoolCallers : PoolLeft(c) /\ pout[c].from = 0 /\ Executed(c)

\* C9: state isolation: a worker's state starts as the initializer's value
\* and changes only through the jobs that worker ran: each job found the
\* state the worker's previous job left, and the state now is what its last
\* job left, whatever the other workers ran.
C9_StateIsolation ==
  \A w \in 1..size :
    /\ \A i \in 1..Len(wlog[w]) :
         /\ wlog[w][i][2] = (IF i = 1 THEN factory ELSE wlog[w][i - 1][3])
         /\ wlog[w][i][3] = wlog[w][i][2] + Inc
    /\ state[w] = (IF wlog[w] = <<>> THEN factory ELSE wlog[w][Len(wlog[w])][3])

\* One worker ran two jobs in sequence while another worker ran none.
C9_Witness ==
  \E v, w \in 1..size : v # w /\ Len(wlog[v]) >= 2 /\ wlog[w] = <<>>

\* C12: ThreadPool::new calls the initializer once per worker, each call on
\* the worker thread that owns the resulting state: once new has returned,
\* the state of every worker of the pool was made on a worker thread, and no
\* other state was made.
C12_FactoryOnWorker ==
  built
    => \A w \in Workers :
         made[w] = (IF w <= size THEN "worker" ELSE "none")

\* C13: queue-send failure is fatal: on a pool without any receiver (size
\* 0), a call of ThreadPool::join never sleeps or returns: it has ended with
\* the fatal "failed to send to work queue" panic, and nothing was queued.
C13_SendFailureFatal ==
  (built /\ size = 0)
    => /\ queue = <<>>
       /\ \A c \in PoolCallers :
            /\ ppc[c] # "sleep"
            /\ ppc[c] = "left"
                 => pout[c] = [kind |-> "fatal", val |-> 0, from |-> 0]

\* Every caller has called ThreadPool::join on a pool of size 0.
C13_Witness ==
  built /\ size = 0 /\ \A c \in PoolCallers : ppc[c] = "left"

Live(w) == wpc[w] \in {"recv", "run"}
Running == {w \in Workers : wpc[w] = "run"}

\* C16: fixed worker count: from the return of new until drop begins the
\* live workers are exactly the size workers new started, whatever jobs have
\* run, failing jobs included.
C16_FixedWorkerCount ==
  (built /\ dpc = "live")
    => /\ {w \in Workers : Live(w)} = 1..size
       /\ \A w \in Workers : wpc[w] # "exited"

\* On a live pool a worker has run a panicking job and a later job after it.
C16_Witness ==
  /\ built /\ dpc = "live"
  /\ \E w \in 1..size :
       /\ Len(wlog[w]) >= 2
       /\ pf[wlog[w][1][1]].kind = "panic"
       /\ Live(w)

\* C17: shutdown does not cancel queued work: a worker's loop ends only when
\* the queue is closed and drained, so while a job is queued no worker of
\* the pool has exited, and when drop has returned (size >= 1) the queue is
\* empty and every job that was enqueued has been executed.
C17_QueuedWorkRuns ==
  /\ [](size >= 1
          => /\ queue # <<>> => \A w \in 1..size : wpc[w] # "exited"
             /\ dpc = "dropped"
                  => /\ queue = <<>>
                     /\ \A c \in PoolCallers : ppc[c] # "idle" => Executed(c))
  /\ [][\A w \in Workers :
          (wpc[w] # "exited" /\ wpc'[w] = "exited")
            => (closed /\ queue = <<>>)]_vars

\* drop has returned on a pool of one worker after every caller's job was
\* run, each of them only after its caller had stopped waiting for it.
C17_Witness ==
  /\ dpc = "dropped"
  /\ size = 1
  /\ \A c \in PoolCallers : PoolLeft(c) /\ pout[c].from = 0 /\ Executed(c)

\* C19: per-worker mutual exclusion: a worker holds at most one job, and
\* takes the next only after the one it holds has ended; the jobs running at
\* once are at most size; a worker's state changes only by the step in which
\* that worker ends the job it holds, to what that job makes of it.
C19_PerWorkerExclusion ==
  /\ [](built
          => /\ Running \subseteq 1..size
             /\ Cardinality(Running) <= size
             /\ \A w \in Workers : (wpc[w] = "run") <=> (wjob[w] # NoJob))
  /\ [][built =>
          \A w \in Workers :
            /\ (wjob[w] # NoJob /\ wjob'[w] # wjob[w])
                 => /\ wjob'[w] = NoJob
                    /\ state'[w] = apply_job(wjob[w].fn, state[w]).state
            /\ state'[w] # state[w]
                 => (wpc[w] = "run" /\ wpc'[w] = "recv" /\ wjob'[w] = NoJob)]_vars

\* Every worker of the pool is running a job while another job waits in the
\* queue.
C19_Witness ==
  /\ built /\ size >= 1
  /\ Running = 1..size
  /\ queue # <<>>

\* C18: shutdown terminates: once drop has replaced the sender, every worker
\* of the pool, idle or busy, eventually exits and drop eventually returns,
\* under fair scheduling and terminating jobs.
C18_ShutdownTerminates ==
  (dpc # "live") ~> (dpc = "dropped" /\ \A w \in 1..size : wpc[w] = "exited")

\* drop is joining the threads while one worker is busy with a job and
\* another is idle, blocked on receive.
C18_Witness ==
  /\ dpc = "joining"
  /\ \E v, w \in 1..size : wpc[v] = "run" /\ wpc[w] = "recv"

====
